---- MODULE Spec2Model ----
(***************************************************************************)
(* A model of json-diff (src/src/main.rs): the lazy file view with its     *)
(* line-offset index, the diff sink that turns change pairs into hunks,    *)
(* the merge writer, the background worker with its channel, and the       *)
(* key-driven controller of the terminal UI.                               *)
(*                                                                         *)
(* Line indices, byte offsets and hunk indices are 0-based as in the       *)
(* source; TLA+ sequences are 1-based, so element i of a vector v is       *)
(* v[i + 1].                                                               *)
(***************************************************************************)
EXTENDS Integers, Sequences, FiniteSets, TLC

\* ------------------------------------------------------------------ bounds

\* Longest file content, in bytes, of the exhaustive file pairs of SpecMerge.
MaxLen == 3

\* Longest file content, in bytes, of the exhaustive file pairs of Spec.
MaxUILen == 1

\* Longest file content, in bytes, of the files of SpecLoad.
MaxLoadLen == 4

\* Longest file content, in bytes, of the exhaustive file pairs of SpecDiff.
MaxDiffLen == 3

\* Largest terminal height t.size() reports.
MaxHeight == 3

\* Most characters a user erases from, or adds to, the default file name.
MaxEdit == 1

\* The spinner index wraps at this value (usize::wrapping_add wraps at 2^64).
SpinnerWrap == 3

\* Largest terminal height of the frames drawn.
MaxDrawHeight == 5

\* ----------------------------------------------------------------- helpers

Min(a, b) == IF a < b THEN a ELSE b

Max(a, b) == IF a > b THEN a ELSE b

\* usize::saturating_sub
saturating_sub(a, b) == IF a > b THEN a - b ELSE 0

\* Option<T>: None, Some(x)
None == <<>>

Some(x) == <<x>>

IsSome(o) == Len(o) = 1

Unwrap(o) == o[1]

\* Element i (0-based) of vector v.
At(v, i) == v[i + 1]

\* The byte slice content[start..end) (0-based, end exclusive).
Slice(content, start, end) == SubSeq(content, start + 1, end)

RECURSIVE Concat(_)
Concat(ss) == IF ss = <<>> THEN <<>> ELSE Head(ss) \o Concat(Tail(ss))

SeqsUpTo(S, n) == UNION {[1..k -> S] : k \in 0..n}

\* ------------------------------------------------------------------- bytes

NL == 10

CR == 13

\* 0xFF, a byte no UTF-8 text contains.
Invalid == 255

\* std::str::from_utf8 accepting bytes, for the bytes of the model: ASCII and
\* 0xFF.
valid_utf8(bytes) == \A i \in 1..Len(bytes) : bytes[i] < 128

\* The bytes of the exhaustive file contents: 'a', 'b' and '\n'.
Alphabet == {97, 98, NL}

\* ------------------------------------------------------------ LazyDiffView

\* The scan of the bytes lo .. hi - 1 (0-based) of content by one rayon task:
\* i + 1 for every index i of a newline byte, in index order.
scan_chunk(content, lo, hi) ==
    SelectSeq([k \in 1..(hi - lo) |-> lo + k],
              LAMBDA o : content[o] = NL)

\* par_iter().enumerate().filter().map().collect() with the content split at
\* the byte positions cuts: every chunk is scanned on its own and collect
\* joins the chunks' results in chunk order.
RECURSIVE par_collect(_, _, _)
par_collect(content, cuts, lo) ==
    IF lo >= Len(content) THEN <<>>
    ELSE LET later == {c \in cuts : c > lo /\ c < Len(content)}
             hi == IF later = {} THEN Len(content)
                   ELSE CHOOSE c \in later : \A d \in later : c <= d
         IN  scan_chunk(content, lo, hi) \o par_collect(content, cuts, hi)

\* The offsets being the newline positions themselves (i in place of i + 1).
from_source_newline_positions(content) ==
    [content |-> content,
     line_offsets |-> <<0>> \o SelectSeq([i \in 1..Len(content) |-> i - 1],
                                         LAMBDA o : content[o + 1] = NL)]

\* LazyDiffView::from_source: line_offsets is [0] followed by i + 1 for every
\* index i of a newline byte, in byte order (rayon's collect keeps the order
\* of the indexed parallel iterator).
from_source(content) ==
    [content |-> content,
     line_offsets |-> <<0>> \o SelectSeq([i \in 1..Len(content) |-> i],
                                         LAMBDA i : content[i] = NL)]

\* LazyDiffView::len: the number of line offsets.
len(view) == Len(view.line_offsets)

\* get_line keeping the newline of every line but the last.
get_line_with_newline(view, line_idx) ==
    IF line_idx >= Len(view.line_offsets) THEN None
    ELSE Some(Slice(view.content, At(view.line_offsets, line_idx),
                    IF line_idx + 1 < Len(view.line_offsets)
                    THEN At(view.line_offsets, line_idx + 1)
                    ELSE Len(view.content)))

\* LazyDiffView::get_line: None past the last offset, otherwise the bytes of
\* the line without its newline, and None when they are not UTF-8
\* (std::str::from_utf8(..).ok()).
get_line(view, line_idx) ==
    IF line_idx >= Len(view.line_offsets) THEN None
    ELSE LET start == At(view.line_offsets, line_idx)
             end0 == IF line_idx + 1 < Len(view.line_offsets)
                     THEN At(view.line_offsets, line_idx + 1) - 1
                     ELSE Len(view.content)
             line == Slice(view.content, start, Min(end0, Len(view.content)))
         IN  IF start > end0 THEN Some(<<>>)
             ELSE IF valid_utf8(line) THEN Some(line)
             ELSE None

\* str::replace("\r\n", "\n")
RECURSIVE replace_crlf(_)
replace_crlf(bytes) ==
    IF bytes = <<>> THEN <<>>
    ELSE IF Len(bytes) >= 2 /\ bytes[1] = CR /\ bytes[2] = NL
    THEN <<NL>> \o replace_crlf(SubSeq(bytes, 3, Len(bytes)))
    ELSE <<bytes[1]>> \o replace_crlf(Tail(bytes))

\* LazyDiffView::new(path).  file is None when fs::metadata fails, Some(bytes)
\* otherwise; large tells whether metadata.len() > MAX_JSON_FORMAT_SIZE.  A
\* large file is mapped and indexed as it is; a small one goes through
\* fs::read_to_string, an error when the bytes are not UTF-8, and has its
\* "\r\n" replaced.  (No content of the model starts with '{' or '[', so
\* should_format_json is false and nothing is re-formatted.)  None is Err.
new(file, large) ==
    IF ~IsSome(file) THEN None
    ELSE IF large THEN Some(from_source(Unwrap(file)))
    ELSE IF ~valid_utf8(Unwrap(file)) THEN None
    ELSE Some(from_source(replace_crlf(Unwrap(file))))

\* ------------------------------------------------------------- diff engine

\* imara_diff::sources::byte_lines, the token source process_side_by_side
\* hands to the interner: the lines of data without their terminator ("\n"
\* or "\r\n"); a last line without a terminator is a token as it stands, and
\* nothing follows a final newline.
RECURSIVE byte_lines(_)
byte_lines(data) ==
    IF data = <<>> THEN <<>>
    ELSE LET nls == {i \in 1..Len(data) : data[i] = NL}
         IN  IF nls = {} THEN <<data>>
             ELSE LET line_len == CHOOSE i \in nls : \A j \in nls : i <= j
                      saw_carriage_return ==
                          line_len > 1 /\ data[line_len - 1] = CR
                      keep == line_len - 1 - (IF saw_carriage_return THEN 1 ELSE 0)
                  IN  <<SubSeq(data, 1, keep)>>
                      \o byte_lines(SubSeq(data, line_len + 1, Len(data)))

\* Length of the longest common prefix of token sequences a and b.
RECURSIVE CommonPrefix(_, _)
CommonPrefix(a, b) ==
    IF a # <<>> /\ b # <<>> /\ Head(a) = Head(b)
    THEN 1 + CommonPrefix(Tail(a), Tail(b))
    ELSE 0

Reverse(s) == [i \in 1..Len(s) |-> s[Len(s) + 1 - i]]

\* The chains of matched token pairs <<i, j>> (0-based, a[i] = b[j]) inside
\* a[i0..i1) x b[j0..j1), strictly increasing in both coordinates.
RECURSIVE Chains(_, _, _, _, _, _)
Chains(a, b, i0, j0, i1, j1) ==
    {<<>>} \cup
    UNION {{<<pq>> \o c : c \in Chains(a, b, pq[1] + 1, pq[2] + 1, i1, j1)} :
           pq \in {x \in (i0..(i1 - 1)) \X (j0..(j1 - 1)) : At(a, x[1]) = At(b, x[2])}}

\* The change pairs between the matched pairs of a chain: the unmatched
\* tokens after the match <<pi, pj>> up to the next match, or up to <<i1, j1>>.
RECURSIVE ChangesOf(_, _, _, _, _)
ChangesOf(chain, pi, pj, i1, j1) ==
    LET ni == IF chain = <<>> THEN i1 ELSE Head(chain)[1]
        nj == IF chain = <<>> THEN j1 ELSE Head(chain)[2]
        here == IF ni > pi + 1 \/ nj > pj + 1
                THEN <<[before |-> <<pi + 1, ni>>, after |-> <<pj + 1, nj>>]>>
                ELSE <<>>
    IN  IF chain = <<>> THEN here
        ELSE here \o ChangesOf(Tail(chain), ni, nj, i1, j1)

\* imara_diff::diff with Algorithm::Histogram, as far as the sink can tell:
\* the common prefix and postfix of the two token sequences are never part
\* of a change; between them the engine matches some chain of equal tokens
\* and reports each maximal run of unmatched tokens as one change pair, in
\* ascending order.  Which chain the histogram heuristic picks is left open.
EditScripts(a, b) ==
    LET pre == CommonPrefix(a, b)
        ra == Reverse(SubSeq(a, pre + 1, Len(a)))
        rb == Reverse(SubSeq(b, pre + 1, Len(b)))
        post == CommonPrefix(ra, rb)
        i1 == Len(a) - post
        j1 == Len(b) - post
    IN  {ChangesOf(c, pre - 1, pre - 1, i1, j1) : c \in Chains(a, b, pre, pre, i1, j1)}

\* ---------------------------------------------------------------- DiffSink

\* DiffSink::new
DiffSink_new(total_old_len, total_new_len) ==
    [ops |-> <<>>, last_old_idx |-> 0, last_new_idx |-> 0,
     total_old_len |-> total_old_len, total_new_len |-> total_new_len]

\* process_change without the Equal hunk for the gap before the change.
process_change_without_gap(self, before, after) ==
    LET old_len == before[2] - before[1]
        new_len == after[2] - after[1]
        op == IF old_len = 0
              THEN [kind |-> "Insert", old_index |-> before[1],
                    new_index |-> after[1], new_len |-> new_len]
              ELSE IF new_len = 0
              THEN [kind |-> "Delete", old_index |-> before[1],
                    old_len |-> old_len, new_index |-> after[1]]
              ELSE [kind |-> "Replace", old_index |-> before[1], old_len |-> old_len,
                    new_index |-> after[1], new_len |-> new_len]
    IN  [self EXCEPT !.ops = Append(self.ops, op),
                     !.last_old_idx = before[2],
                     !.last_new_idx = after[2]]

\* DiffSink::process_change
process_change(self, before, after) ==
    LET old_start == before[1]
        old_end == before[2]
        new_start == after[1]
        new_end == after[2]
        ops1 == IF old_start > self.last_old_idx \/ new_start > self.last_new_idx
                THEN Append(self.ops, [kind |-> "Equal",
                                       old_index |-> self.last_old_idx,
                                       new_index |-> self.last_new_idx,
                                       len |-> old_start - self.last_old_idx])
                ELSE self.ops
        old_len == old_end - old_start
        new_len == new_end - new_start
        op == IF old_len = 0
              THEN [kind |-> "Insert", old_index |-> old_start,
                    new_index |-> new_start, new_len |-> new_len]
              ELSE IF new_len = 0
              THEN [kind |-> "Delete", old_index |-> old_start,
                    old_len |-> old_len, new_index |-> new_start]
              ELSE [kind |-> "Replace", old_index |-> old_start, old_len |-> old_len,
                    new_index |-> new_start, new_len |-> new_len]
    IN  [self EXCEPT !.ops = Append(ops1, op),
                     !.last_old_idx = old_end,
                     !.last_new_idx = new_end]

\* finish pushing the trailing Equal twice.
finish_pushes_twice(self) ==
    LET trailing == [kind |-> "Equal",
                     old_index |-> self.last_old_idx,
                     new_index |-> self.last_new_idx,
                     len |-> self.total_old_len - self.last_old_idx]
    IN  IF self.last_old_idx < self.total_old_len \/ self.last_new_idx < self.total_new_len
        THEN self.ops \o <<trailing, trailing>>
        ELSE self.ops

\* DiffSink::finish
finish(self) ==
    IF self.last_old_idx < self.total_old_len \/ self.last_new_idx < self.total_new_len
    THEN Append(self.ops, [kind |-> "Equal",
                           old_index |-> self.last_old_idx,
                           new_index |-> self.last_new_idx,
                           len |-> self.total_old_len - self.last_old_idx])
    ELSE self.ops

\* The engine feeding the sink: process_change for every change pair in
\* order, then finish.
RECURSIVE Feed(_, _)
Feed(sink, changes) ==
    IF changes = <<>> THEN finish(sink)
    ELSE Feed(process_change(sink, Head(changes).before, Head(changes).after),
              Tail(changes))

\* The hunk lists process_side_by_side can compute for two loaded views: the
\* sink is sized with the views' len() and fed an edit script of their lines.
DiffResults(f1, f2) ==
    {Feed(DiffSink_new(len(f1), len(f2)), cs) :
        cs \in EditScripts(byte_lines(f1.content), byte_lines(f2.content))}

\* ------------------------------------------------------ program constants

\* let step = 10, of the Left and Right keys without a selection
ScrollStep == 10

\* "merged_output.json", the file name key 's' proposes
DefaultName ==
    <<"m", "e", "r", "g", "e", "d", "_", "o", "u", "t", "p", "u", "t",
      ".", "j", "s", "o", "n">>

\* The character typed into the file-name prompt (q is also the quit key of Done).
TypedChars == {"q"}

\* The terminal heights t.size() reports.
Heights == 1..MaxHeight

\* -------------------------------------------------------------- Resolution

Resolution == {"Unresolved", "PickLeft", "PickRight", "PickBoth"}

\* The rows a hunk takes on screen (run_app, total_rows and draw_diff_view
\* compute it with the same match).
op_len(op) ==
    CASE op.kind = "Equal" -> op.len
      [] op.kind = "Delete" -> op.old_len
      [] op.kind = "Insert" -> op.new_len
      [] op.kind = "Replace" -> Max(op.old_len, op.new_len)

\* ------------------------------------------------------------ merge writer

\* What a run of the writer has done so far: the bytes handed to the
\* BufWriter, and whether an index or a slice went out of bounds (a panic).
Written(bytes) == [panic |-> FALSE, bytes |-> bytes]

Panicked(bytes) == [panic |-> TRUE, bytes |-> bytes]

\* save_merged_output's copy of the lines start_idx .. start_idx + n of a view:
\*   let start_byte = f.line_offsets[start_idx];
\*   let end_byte = if end_idx < f.line_offsets.len() { f.line_offsets[end_idx] }
\*                  else { f.content.len() };
\*   writer.write_all(&f.content[start_byte..end_byte])
\* Indexing line_offsets past its end panics, and so does a slice whose start
\* is past its end.
write_range(f, start_idx, n) ==
    LET end_idx == start_idx + n
    IN  IF start_idx >= Len(f.line_offsets) THEN Panicked(<<>>)
        ELSE LET start_byte == At(f.line_offsets, start_idx)
                 end_byte == IF end_idx < Len(f.line_offsets)
                             THEN At(f.line_offsets, end_idx)
                             ELSE Len(f.content)
             IN  IF start_byte > end_byte THEN Panicked(<<>>)
                 ELSE Written(Slice(f.content, start_byte, end_byte))

\* One writer result after another: nothing runs after a panic.
Then(w1, w2) ==
    IF w1.panic THEN w1
    ELSE [panic |-> w2.panic, bytes |-> w1.bytes \o w2.bytes]

\* The arm of save_merged_output's match for one hunk and its resolution.
write_op(f1, f2, op, resolution) ==
    CASE op.kind = "Equal" -> write_range(f1, op.old_index, op.len)
      [] op.kind = "Insert" ->
            IF resolution \in {"PickRight", "PickBoth"}
            THEN write_range(f2, op.new_index, op.new_len)
            ELSE Written(<<>>)
      [] op.kind = "Delete" ->
            IF resolution = "PickRight" THEN Written(<<>>)
            ELSE write_range(f1, op.old_index, op.old_len)
      [] op.kind = "Replace" ->
            IF resolution = "PickRight"
            THEN write_range(f2, op.new_index, op.new_len)
            ELSE IF resolution = "PickBoth"
            THEN Then(write_range(f1, op.old_index, op.old_len),
                      write_range(f2, op.new_index, op.new_len))
            ELSE write_range(f1, op.old_index, op.old_len)

\* The loop of save_merged_output over the hunks from index i on; a hunk
\* without an entry in resolutions counts as Unresolved.
RECURSIVE write_ops(_, _, _, _, _)
write_ops(f1, f2, ops, resolutions, i) ==
    IF i >= Len(ops) THEN Written(<<>>)
    ELSE LET resolution == IF i < Len(resolutions) THEN At(resolutions, i)
                           ELSE "Unresolved"
         IN  Then(write_op(f1, f2, At(ops, i), resolution),
                  write_ops(f1, f2, ops, resolutions, i + 1))

\* save_merged_output(app, path).  create_ok tells whether File::create(path)
\* succeeds; when it fails, or a file is not loaded, the function returns Err
\* and writes nothing.  Otherwise it returns Ok with the bytes written, or
\* panics part-way.
save_merged_output(file1, file2, ops, resolutions, path, create_ok) ==
    IF ~create_ok \/ ~IsSome(file1) \/ ~IsSome(file2)
    THEN [path |-> path, result |-> "Err", bytes |-> <<>>]
    ELSE LET w == write_ops(Unwrap(file1), Unwrap(file2), ops, resolutions, 0)
         IN  [path |-> path,
              result |-> IF w.panic THEN "Panic" ELSE "Ok",
              bytes |-> w.bytes]

\* --------------------------------------------------------------- the state

VARIABLES
    disk1,              \* the bytes of file1 on disk: Some(bytes), None when there is no such file
    disk2,              \* the same for file2
    large1,             \* file1 is larger than MAX_JSON_FORMAT_SIZE
    large2,             \* the same for file2
    worker_pc,          \* where process_side_by_side stands
    channel,            \* the mpsc channel: AppEvents sent and not yet received
    state,              \* App.state
    loading_log,        \* App.loading_log
    spinner_index,      \* App.spinner_index
    diff_ops,           \* App.diff_ops
    op_row_counts,      \* App.op_row_counts
    file1,              \* App.file1
    file2,              \* App.file2
    scroll_offset,      \* App.scroll_offset
    resolutions,        \* App.resolutions
    selected_op_index,  \* App.selected_op_index
    running,            \* run_app's loop has not returned
    saved,              \* the call of save_merged_output made by the last step, if any
    sent,               \* every AppEvent the worker has passed to tx.send, in order
    exit                \* how the process ended: None while it runs

vars == <<disk1, disk2, large1, large2, worker_pc, channel, state, loading_log, spinner_index,
          diff_ops, op_row_counts, file1, file2, scroll_offset, resolutions,
          selected_op_index, running, saved, sent, exit>>

worker_vars == <<worker_pc, channel, sent>>

disk_vars == <<disk1, disk2, large1, large2>>

\* The fields of App the worker's result fills in.
load_vars == <<diff_ops, op_row_counts, file1, file2>>

\* AppState
Loading == [tag |-> "Loading"]

Done == [tag |-> "Done"]

Error(msg) == [tag |-> "Error", msg |-> msg]

Saving(input) == [tag |-> "Saving", input |-> input]

\* AppEvent
Log(msg) == [type |-> "Log", msg |-> msg]

DoneOk(f1, f2, ops) == [type |-> "Done", ok |-> TRUE, f1 |-> f1, f2 |-> f2, ops |-> ops]

DoneErr(e) == [type |-> "Done", ok |-> FALSE, err |-> e]

\* The size classes a file is taken in.  Bytes that read_to_string accepts
\* and replace leaves as they are load alike on both paths of
\* LazyDiffView::new, so only the other files are taken as large ones too.
SizeClasses(file) ==
    IF IsSome(file) /\ (~valid_utf8(Unwrap(file)) \/ replace_crlf(Unwrap(file)) # Unwrap(file))
    THEN BOOLEAN
    ELSE {FALSE}

\* main: the App it builds and the worker it spawns.
InitWith(inputs) ==
    /\ \E pair \in inputs : disk1 = pair[1] /\ disk2 = pair[2]
    /\ large1 \in SizeClasses(disk1)
    /\ large2 \in SizeClasses(disk2)
    /\ worker_pc = "log1"
    /\ channel = <<>>
    /\ state = Loading
    /\ loading_log = "Initializing..."
    /\ spinner_index = 0
    /\ diff_ops = <<>>
    /\ op_row_counts = <<>>
    /\ file1 = None
    /\ file2 = None
    /\ scroll_offset = 0
    /\ resolutions = <<>>
    /\ selected_op_index = None
    /\ running = TRUE
    /\ saved = None
    /\ sent = <<>>
    /\ exit = None

\* -------------------------------------------------------------- the worker

ui_vars == <<state, loading_log, spinner_index, diff_ops, op_row_counts, file1, file2,
             scroll_offset, resolutions, selected_op_index, running, saved, exit>>

\* tx.send(event) on the unbounded std::sync::mpsc channel.
send(event) ==
    /\ channel' = Append(channel, event)
    /\ sent' = Append(sent, event)

\* process_side_by_side: tx.send(Log("Reading <p1>"))
WorkerLog1 ==
    /\ worker_pc = "log1"
    /\ send(Log("Reading 1"))
    /\ worker_pc' = "read1"
    /\ UNCHANGED <<disk_vars, ui_vars>>

\* LazyDiffView::new(&p1) with its "?": on an error the closure returns and
\* Done(Err) is sent; otherwise the second Log is sent.
WorkerRead1 ==
    /\ worker_pc = "read1"
    /\ IF IsSome(new(disk1, large1))
       THEN /\ send(Log("Reading 2"))
            /\ worker_pc' = "read2"
       ELSE /\ send(DoneErr("Failed to read file 1"))
            /\ worker_pc' = "finished"
    /\ UNCHANGED <<disk_vars, ui_vars>>

\* LazyDiffView::new(&p2), then the third Log.
WorkerRead2 ==
    /\ worker_pc = "read2"
    /\ IF IsSome(new(disk2, large2))
       THEN /\ send(Log("Calculating Diff (imara-diff)..."))
            /\ worker_pc' = "diff"
       ELSE /\ send(DoneErr("Failed to read file 2"))
            /\ worker_pc' = "finished"
    /\ UNCHANGED <<disk_vars, ui_vars>>

\* The interning, the diff into a DiffSink and tx.send(Done(Ok(..))).
WorkerDiff ==
    /\ worker_pc = "diff"
    /\ LET f1 == Unwrap(new(disk1, large1))
           f2 == Unwrap(new(disk2, large2))
       IN  \E ops \in DiffResults(f1, f2) :
               send(DoneOk(f1, f2, ops))
    /\ worker_pc' = "finished"
    /\ UNCHANGED <<disk_vars, ui_vars>>

Worker == WorkerLog1 \/ WorkerRead1 \/ WorkerRead2 \/ WorkerDiff

\* ------------------------------------------------------------- the UI tick

\* The cumulative row counts run_app computes when the result arrives:
\* entry i is the number of rows of the hunks before hunk i.
RECURSIVE row_counts(_, _, _)
row_counts(ops, i, current_row) ==
    IF i >= Len(ops) THEN <<>>
    ELSE <<current_row>> \o row_counts(ops, i + 1, current_row + op_len(At(ops, i)))

\* App::total_rows
total_rows(ops, counts) ==
    IF ops = <<>> THEN 0
    ELSE LET last_op == ops[Len(ops)]
             last_start == IF counts = <<>> THEN 0 ELSE counts[Len(counts)]
         IN  last_start + op_len(last_op)

\* The match with a failed load treated like a finished one.
handle_event_error_as_done(app, event) ==
    IF event.type = "Log" THEN [app EXCEPT !.loading_log = event.msg]
    ELSE [app EXCEPT !.state = Done]

\* The handler of Done(Ok) without the line that sizes the resolutions.
handle_event_keeps_resolutions(app, event) ==
    IF event.type = "Log" THEN [app EXCEPT !.loading_log = event.msg]
    ELSE IF event.ok
    THEN [app EXCEPT !.file1 = Some(event.f1),
                     !.file2 = Some(event.f2),
                     !.diff_ops = event.ops,
                     !.op_row_counts = row_counts(event.ops, 0, 0),
                     !.selected_op_index = None,
                     !.state = Done]
    ELSE [app EXCEPT !.state = Error(event.err)]

\* The match on one received AppEvent, on the fields of App it assigns.
handle_event(app, event) ==
    IF event.type = "Log" THEN [app EXCEPT !.loading_log = event.msg]
    ELSE IF event.ok
    THEN [app EXCEPT !.file1 = Some(event.f1),
                     !.file2 = Some(event.f2),
                     !.diff_ops = event.ops,
                     !.op_row_counts = row_counts(event.ops, 0, 0),
                     !.resolutions = [i \in 1..Len(event.ops) |-> "Unresolved"],
                     !.selected_op_index = None,
                     !.state = Done]
    ELSE [app EXCEPT !.state = Error(event.err)]

\* The receive loop taking the newest event first.
RECURSIVE drain_newest_first(_, _)
drain_newest_first(app, events) ==
    IF events = <<>> THEN app
    ELSE drain_newest_first(handle_event(app, events[Len(events)]),
                            SubSeq(events, 1, Len(events) - 1))

\* The receive loop handling the first event only; the rest is dropped.
drain_first_only(app, events) ==
    IF events = <<>> THEN app ELSE handle_event(app, Head(events))

\* while let Ok(event) = app.receiver.try_recv() { .. }: every event in the
\* channel, in the order sent.
RECURSIVE drain(_, _)
drain(app, events) ==
    IF events = <<>> THEN app
    ELSE drain(handle_event(app, Head(events)), Tail(events))

\* One pass of run_app's loop in Loading, up to the keyboard poll: the
\* spinner advances and the channel is emptied.
Tick ==
    /\ running
    /\ state.tag = "Loading"
    /\ spinner_index' = (spinner_index + 1) % SpinnerWrap
    /\ LET app == drain([state |-> state, loading_log |-> loading_log,
                         file1 |-> file1, file2 |-> file2, diff_ops |-> diff_ops,
                         op_row_counts |-> op_row_counts, resolutions |-> resolutions,
                         selected_op_index |-> selected_op_index], channel)
       IN  /\ state' = app.state
           /\ loading_log' = app.loading_log
           /\ file1' = app.file1
           /\ file2' = app.file2
           /\ diff_ops' = app.diff_ops
           /\ op_row_counts' = app.op_row_counts
           /\ resolutions' = app.resolutions
           /\ selected_op_index' = app.selected_op_index
    /\ channel' = <<>>
    /\ UNCHANGED <<disk_vars, worker_pc, sent, scroll_offset, running, saved, exit>>

\* ------------------------------------------------------------ the renderer

\* let view_height = layout[1].height: what the vertical layout Length(1),
\* Min(0), Length(1) leaves of a terminal of the given height for the diff
\* rows, between header and footer.
view_height(height) == saturating_sub(height, 2)

\* The binary search with Err(i) taken as i, not stepped back to the hunk
\* that holds the row.
start_op_idx_insertion_point(counts, start_row) ==
    LET hits == {i \in 0..(Len(counts) - 1) : At(counts, i) = start_row}
        below == Cardinality({i \in 0..(Len(counts) - 1) : At(counts, i) < start_row})
    IN  IF hits # {} THEN hits ELSE {below}

\* op_row_counts.binary_search(&start_row) and the match on its result, the
\* hunk index draw_diff_view starts at: Ok(i) is any index holding start_row
\* (the standard library leaves open which one), Err(i) the insertion point,
\* taken as i.saturating_sub(1).
start_op_idx(counts, start_row) ==
    LET hits == {i \in 0..(Len(counts) - 1) : At(counts, i) = start_row}
        below == Cardinality({i \in 0..(Len(counts) - 1) : At(counts, i) < start_row})
    IN  IF hits # {} THEN hits ELSE {saturating_sub(below, 1)}

\* draw_diff_view's loop from hunk i on, up to the first row it renders: a
\* hunk with offset_in_op >= op_len is skipped (continue).  The hunk and the
\* local row of the first rendered row, None when no row is rendered.
RECURSIVE first_rendered(_, _, _, _)
first_rendered(ops, counts, i, start_row) ==
    IF i >= Len(ops) THEN None
    ELSE LET offset_in_op == saturating_sub(start_row, At(counts, i))
         IN  IF offset_in_op >= op_len(At(ops, i))
             THEN first_rendered(ops, counts, i + 1, start_row)
             ELSE Some(<<i, offset_in_op>>)

\* The hunk and local row draw_diff_view renders at the top for scroll row
\* start_row (a viewport of at least one row): one result for each index the
\* binary search may return.
row_to_hunk(ops, counts, start_row) ==
    {first_rendered(ops, counts, s, start_row) : s \in start_op_idx(counts, start_row)}

\* The colours of the diff view.
BG_CANVAS == "Reset"

FG_DEFAULT == "Reset"

BG_DEL == "Red"

BG_ADD == "Green"

BG_EMPTY == "Reset"

\* Style::default().fg(fg).bg(bg); fg is None where the code sets none.
Style(fg, bg) == [fg |-> fg, bg |-> bg]

\* DiffCell; the gutter style, which follows the selection, is left out.
DiffCell(line_index, style) ==
    [line_index |-> line_index,
     line_number |-> IF IsSome(line_index) THEN Some(Unwrap(line_index) + 1) ELSE None,
     style |-> style]

\* The cell of a side without a line.
empty_cell == DiffCell(None, Style(None, BG_EMPTY))

\* The cell of line idx on background bg.
line_cell(idx, bg) == DiffCell(Some(idx), Style(Some(FG_DEFAULT), bg))

\* is_visually_equal of the Replace arm: both sides have a line at local_idx
\* and get_line gives a string for both, and the strings are equal.
is_visually_equal(op, local_idx, f1, f2) ==
    /\ local_idx < op.old_len
    /\ local_idx < op.new_len
    /\ LET l == get_line(f1, op.old_index + local_idx)
           r == get_line(f2, op.new_index + local_idx)
       IN  IsSome(l) /\ IsSome(r) /\ l = r

\* The match on the hunk in draw_diff_view: the left and the right cell of
\* local row local_idx of hunk op, before the resolution styles.
op_cells(op, local_idx, f1, f2) ==
    CASE op.kind = "Equal" ->
            <<line_cell(op.old_index + local_idx, BG_CANVAS),
              line_cell(op.new_index + local_idx, BG_CANVAS)>>
      [] op.kind = "Delete" ->
            <<line_cell(op.old_index + local_idx, BG_DEL), empty_cell>>
      [] op.kind = "Insert" ->
            <<empty_cell, line_cell(op.new_index + local_idx, BG_ADD)>>
      [] op.kind = "Replace" ->
            LET equal == is_visually_equal(op, local_idx, f1, f2)
            IN  <<IF local_idx < op.old_len
                  THEN line_cell(op.old_index + local_idx,
                                 IF equal THEN BG_CANVAS ELSE BG_DEL)
                  ELSE empty_cell,
                  IF local_idx < op.new_len
                  THEN line_cell(op.new_index + local_idx,
                                 IF equal THEN BG_CANVAS ELSE BG_ADD)
                  ELSE empty_cell>>

\* "Apply Resolution Styles": PickLeft dims the right cell, PickRight the
\* left cell.
dim(cell) == [cell EXCEPT !.style = Style(Some("DarkGray"), BG_CANVAS)]

apply_resolution(cells, resolution) ==
    CASE resolution = "PickLeft" -> <<cells[1], dim(cells[2])>>
      [] resolution = "PickRight" -> <<dim(cells[1]), cells[2]>>
      [] OTHER -> cells

\* render_diff_line: the line number, the text and the style a cell is drawn
\* with; the text is get_line's string, nothing when there is none.  The
\* area is taken wide enough for the whole line.
render_diff_line(cell, source) ==
    [line_number |-> cell.line_number,
     text |-> IF IsSome(cell.line_index)
              THEN get_line(source, Unwrap(cell.line_index)) ELSE None,
     style |-> cell.style]

\* resolutions.get(i).copied().unwrap_or(Resolution::Unresolved)
resolution_of(res, i) == IF i < Len(res) THEN At(res, i) ELSE "Unresolved"

\* The inner loop of draw_diff_view: rows_to_render rows of hunk i from local
\* row offset_in_op on, drawn at screen rows current_y, current_y + 1, ...
hunk_rows(op, i, resolution, f1, f2, offset_in_op, rows_to_render, current_y) ==
    [r \in 1..rows_to_render |->
        LET local_idx == offset_in_op + r - 1
            cells == apply_resolution(op_cells(op, local_idx, f1, f2), resolution)
        IN  [y |-> current_y + r - 1,
             hunk |-> i,
             local_idx |-> local_idx,
             left |-> render_diff_line(cells[1], f1),
             right |-> render_diff_line(cells[2], f2)]]

\* The outer loop of draw_diff_view from hunk i on: the rows drawn, top down.
RECURSIVE draw_from(_, _, _, _, _, _, _, _, _)
draw_from(ops, counts, res, f1, f2, i, current_y, current_row_idx, height) ==
    IF i >= Len(ops) \/ current_y >= height THEN <<>>
    ELSE LET op == At(ops, i)
             offset_in_op == saturating_sub(current_row_idx, At(counts, i))
         IN  IF offset_in_op >= op_len(op)
             THEN draw_from(ops, counts, res, f1, f2, i + 1, current_y,
                            current_row_idx, height)
             ELSE LET rows_remaining == op_len(op) - offset_in_op
                      rows_to_render == Min(rows_remaining, height - current_y)
                  IN  hunk_rows(op, i, resolution_of(res, i), f1, f2,
                                offset_in_op, rows_to_render, current_y)
                      \o draw_from(ops, counts, res, f1, f2, i + 1,
                                   current_y + rows_to_render,
                                   current_row_idx + rows_to_render, height)

\* draw_diff_view on a terminal of the given height with the view at
\* start_row: the rows it draws, one result for each index the binary
\* search may return.
draw_diff_view(ops, counts, res, f1, f2, start_row, height) ==
    {draw_from(ops, counts, res, f1, f2, s, 0, start_row, view_height(height)) :
        s \in start_op_idx(counts, start_row)}

\* ------------------------------------------------------------ keys in Done

\* What a key press in Done or Saving leaves alone unless it says otherwise.
key_frame == <<disk_vars, worker_vars, loading_log, spinner_index, load_vars>>

\* The loop of key 'n' without its test for Equal hunks.
find_next_any_kind(ops, i) == IF i >= Len(ops) THEN None ELSE Some(i)

\* The loop of key 'n': the first non-Equal hunk from index i upwards.
RECURSIVE find_next(_, _)
find_next(ops, i) ==
    IF i >= Len(ops) THEN None
    ELSE IF At(ops, i).kind # "Equal" THEN Some(i)
    ELSE find_next(ops, i + 1)

\* The loop of key 'p' without its test for Equal hunks.
find_prev_any_kind(ops, i) == IF i < 0 THEN None ELSE Some(i)

\* The loop of key 'p': the first non-Equal hunk from index i downwards.
RECURSIVE find_prev(_, _)
find_prev(ops, i) ==
    IF i < 0 THEN None
    ELSE IF At(ops, i).kind # "Equal" THEN Some(i)
    ELSE find_prev(ops, i - 1)

\* Key 'n' searching from the selected hunk itself instead of the one after it.
next_target_from_selected(ops, selected) ==
    find_next(ops, IF IsSome(selected) THEN Unwrap(selected) ELSE 0)

\* Key 'n': where the search starts and what it finds.
next_target(ops, selected) ==
    find_next(ops, IF IsSome(selected) THEN Unwrap(selected) + 1 ELSE 0)

\* Key 'p': where the search starts and what it finds.
prev_target(ops, selected) ==
    find_prev(ops, IF IsSome(selected) THEN saturating_sub(Unwrap(selected), 1) ELSE 0)

InDone == running /\ state.tag = "Done"

\* The end of main once run_app has returned res: disable_raw_mode()? and
\* execute!(stdout, LeaveAlternateScreen)? return their error (exit code 1);
\* otherwise an Err of run_app is printed and main returns Ok(()) (exit code 0).
main_exit(res, restore_ok) ==
    Some([res |-> res, restored |-> restore_ok, code |-> IF restore_ok THEN 0 ELSE 1])

\* A panic on the main thread: the process ends with Rust's exit code 101.
panic_exit == Some([res |-> "Panic", restored |-> FALSE, code |-> 101])

\* KeyCode::Char('q') | KeyCode::Esc => return Ok(())
KeyQuit ==
    /\ InDone
    /\ running' = FALSE
    /\ \E restore_ok \in BOOLEAN : exit' = main_exit("Ok", restore_ok)
    /\ saved' = None
    /\ UNCHANGED <<key_frame, state, scroll_offset, resolutions, selected_op_index>>

\* KeyCode::Char('n')
KeyNext ==
    /\ InDone
    /\ LET found == next_target(diff_ops, selected_op_index)
       IN  IF IsSome(found)
           THEN /\ selected_op_index' = found
                /\ scroll_offset' = At(op_row_counts, Unwrap(found))
           ELSE UNCHANGED <<selected_op_index, scroll_offset>>
    /\ saved' = None
    /\ UNCHANGED <<key_frame, state, resolutions, running, exit>>

\* KeyCode::Char('p')
KeyPrev ==
    /\ InDone
    /\ LET found == prev_target(diff_ops, selected_op_index)
       IN  IF IsSome(found)
           THEN /\ selected_op_index' = found
                /\ scroll_offset' = At(op_row_counts, Unwrap(found))
           ELSE UNCHANGED <<selected_op_index, scroll_offset>>
    /\ saved' = None
    /\ UNCHANGED <<key_frame, state, resolutions, running, exit>>

\* The assignment hitting the entry after idx.
set_resolution_off_by_one(rs, idx, r) ==
    IF idx + 1 < Len(rs) THEN [rs EXCEPT ![idx + 2] = r] ELSE rs

\* app.resolutions[idx] = r, under if idx < app.resolutions.len()
set_resolution(rs, idx, r) ==
    IF idx < Len(rs) THEN [rs EXCEPT ![idx + 1] = r] ELSE rs

\* KeyCode::Char('1') | KeyCode::Left
KeyPickLeft ==
    /\ InDone
    /\ IF IsSome(selected_op_index)
       THEN /\ resolutions' = set_resolution(resolutions, Unwrap(selected_op_index), "PickLeft")
            /\ UNCHANGED scroll_offset
       ELSE /\ scroll_offset' = saturating_sub(scroll_offset, ScrollStep)
            /\ UNCHANGED resolutions
    /\ saved' = None
    /\ UNCHANGED <<key_frame, state, selected_op_index, running, exit>>

\* KeyCode::Char('2') | KeyCode::Right
KeyPickRight ==
    /\ InDone
    /\ IF IsSome(selected_op_index)
       THEN /\ resolutions' = set_resolution(resolutions, Unwrap(selected_op_index), "PickRight")
            /\ UNCHANGED scroll_offset
       ELSE /\ scroll_offset' = Min(scroll_offset + ScrollStep,
                                    saturating_sub(total_rows(diff_ops, op_row_counts), 1))
            /\ UNCHANGED resolutions
    /\ saved' = None
    /\ UNCHANGED <<key_frame, state, selected_op_index, running, exit>>

\* KeyCode::Char('3')
KeyPickBoth ==
    /\ InDone
    /\ resolutions' = IF IsSome(selected_op_index)
                      THEN set_resolution(resolutions, Unwrap(selected_op_index), "PickBoth")
                      ELSE resolutions
    /\ saved' = None
    /\ UNCHANGED <<key_frame, state, scroll_offset, selected_op_index, running, exit>>

\* KeyCode::Backspace
KeyReset ==
    /\ InDone
    /\ resolutions' = IF IsSome(selected_op_index)
                      THEN set_resolution(resolutions, Unwrap(selected_op_index), "Unresolved")
                      ELSE resolutions
    /\ saved' = None
    /\ UNCHANGED <<key_frame, state, scroll_offset, selected_op_index, running, exit>>

\* KeyCode::Char('s')
KeySave ==
    /\ InDone
    /\ state' = Saving(DefaultName)
    /\ saved' = None
    /\ UNCHANGED <<key_frame, scroll_offset, resolutions, selected_op_index, running, exit>>

\* The scroll keys' new offset.
scroll_down(offset, total) == IF offset < saturating_sub(total, 1) THEN offset + 1 ELSE offset

scroll_up(offset) == IF offset > 0 THEN offset - 1 ELSE offset

page_down(offset, height, total) == Min(offset + height, saturating_sub(total, 1))

page_up(offset, height) == saturating_sub(offset, height)

\* End jumping to total_rows instead of the last row.
scroll_end_past_last(total) == total

scroll_end(total) == saturating_sub(total, 1)

ScrollTo(offset) ==
    /\ InDone
    /\ scroll_offset' = offset
    /\ saved' = None
    /\ UNCHANGED <<key_frame, state, resolutions, selected_op_index, running, exit>>

\* KeyCode::Down | KeyCode::Char('j')
KeyDown == ScrollTo(scroll_down(scroll_offset, total_rows(diff_ops, op_row_counts)))

\* KeyCode::Up | KeyCode::Char('k')
KeyUp == ScrollTo(scroll_up(scroll_offset))

\* KeyCode::PageDown, with the terminal's height as t.size() reports it
KeyPageDown ==
    \E height \in Heights :
        ScrollTo(page_down(scroll_offset, height, total_rows(diff_ops, op_row_counts)))

\* KeyCode::PageUp
KeyPageUp == \E height \in Heights : ScrollTo(page_up(scroll_offset, height))

\* KeyCode::Home
KeyHome == ScrollTo(0)

\* KeyCode::End
KeyEnd == ScrollTo(scroll_end(total_rows(diff_ops, op_row_counts)))

\* The outer match's _ => {} returning from run_app as 'q' does in Done.
KeyIgnoredQuits ==
    /\ running
    /\ state.tag # "Saving"
    /\ running' = FALSE
    /\ exit' = main_exit("Ok", TRUE)
    /\ saved' = None
    /\ UNCHANGED <<key_frame, state, scroll_offset, resolutions, selected_op_index>>

\* Any other key in Done (_ => {}), and any key at all in Loading or Error
\* (the outer match's _ => {}).
KeyIgnored ==
    /\ running
    /\ state.tag # "Saving"
    /\ saved' = None
    /\ UNCHANGED <<key_frame, state, scroll_offset, resolutions, selected_op_index, running, exit>>

\* ---------------------------------------------------------- keys in Saving

InSaving == running /\ state.tag = "Saving"

\* KeyCode::Enter: the state is restored first, then the writer runs; its Err
\* is dropped, a panic ends the program.
SavingEnter ==
    /\ InSaving
    /\ \E create_ok \in BOOLEAN :
        /\ saved' = Some(save_merged_output(file1, file2, diff_ops, resolutions,
                                            state.input, create_ok))
        /\ running' = (Unwrap(saved').result # "Panic")
        /\ exit' = IF Unwrap(saved').result = "Panic" THEN panic_exit ELSE None
    /\ state' = Done
    /\ UNCHANGED <<key_frame, scroll_offset, resolutions, selected_op_index>>

\* Esc running the writer as Enter does.
SavingEscWrites ==
    /\ InSaving
    /\ saved' = Some(save_merged_output(file1, file2, diff_ops, resolutions,
                                        state.input, TRUE))
    /\ state' = Done
    /\ UNCHANGED <<key_frame, scroll_offset, resolutions, selected_op_index, running, exit>>

\* KeyCode::Esc
SavingEsc ==
    /\ InSaving
    /\ state' = Done
    /\ saved' = None
    /\ UNCHANGED <<key_frame, scroll_offset, resolutions, selected_op_index, running, exit>>

\* String::pop
pop(input) == IF input = <<>> THEN input ELSE SubSeq(input, 1, Len(input) - 1)

\* KeyCode::Backspace
SavingBackspace ==
    /\ InSaving
    /\ Len(state.input) > Len(DefaultName) - MaxEdit
    /\ state' = Saving(pop(state.input))
    /\ saved' = None
    /\ UNCHANGED <<key_frame, scroll_offset, resolutions, selected_op_index, running, exit>>

\* KeyCode::Char(c)
SavingChar ==
    /\ InSaving
    /\ Len(state.input) < Len(DefaultName) + MaxEdit
    /\ \E c \in TypedChars : state' = Saving(Append(state.input, c))
    /\ saved' = None
    /\ UNCHANGED <<key_frame, scroll_offset, resolutions, selected_op_index, running, exit>>

\* Any other key in Saving (_ => {})
SavingOther ==
    /\ InSaving
    /\ saved' = None
    /\ UNCHANGED <<key_frame, state, scroll_offset, resolutions, selected_op_index, running, exit>>

\* ------------------------------------------------------- terminal failure

\* A "?" of run_app's loop returns an error (t.draw, event::poll, event::read,
\* t.size): run_app returns Err and main ends.
TerminalError ==
    /\ running
    /\ running' = FALSE
    /\ \E restore_ok \in BOOLEAN : exit' = main_exit("Err", restore_ok)
    /\ saved' = None
    /\ UNCHANGED <<key_frame, state, scroll_offset, resolutions, selected_op_index>>

Key ==
    \/ KeyQuit \/ KeyNext \/ KeyPrev
    \/ KeyPickLeft \/ KeyPickRight \/ KeyPickBoth \/ KeyReset
    \/ KeySave
    \/ KeyDown \/ KeyUp \/ KeyPageDown \/ KeyPageUp \/ KeyHome \/ KeyEnd
    \/ KeyIgnored
    \/ SavingEnter \/ SavingEsc \/ SavingBackspace \/ SavingChar \/ SavingOther

\* ---------------------------------------------------------- specifications

\* Every file content of at most n bytes over the alphabet.
Files(n) == SeqsUpTo(Alphabet, n)

\* Scenario S1: "A\nB\nC\n" and "A\nMOD\nC\nD\n".
S1Left == <<65, 10, 66, 10, 67, 10>>

S1Right == <<65, 10, 77, 79, 68, 10, 67, 10, 68, 10>>

\* Scenario S3: an empty file and "X\nY\n".
S3Right == <<88, 10, 89, 10>>

\* Twelve lines "a\n": more rows than one step of the Left and Right keys.
LongFile == [i \in 1..24 |-> IF i % 2 = 1 THEN 97 ELSE NL]

\* Two changes with hunk 0 a change: "b\na\nb" against "a\na\na".
TwoLeft == <<98, 10, 97, 10, 98>>

TwoRight == <<97, 10, 97, 10, 97>>

\* A file with a byte that is not UTF-8 in its first line, against a file
\* that differs from it in that line.
BadUtf8 == <<97, Invalid, NL, 98>>

GoodUtf8 == <<97, NL, 98>>

\* Two files whose second line is the same run of bytes that is not UTF-8,
\* between lines that differ.
SameBadLeft == <<98, NL, Invalid, NL, 98>>

SameBadRight == <<97, NL, Invalid, NL, 97>>

Scenarios ==
    {<<Some(S1Left), Some(S1Right)>>,
     <<Some(<<>>), Some(S3Right)>>,
     <<Some(LongFile), Some(LongFile)>>,
     <<Some(TwoLeft), Some(TwoRight)>>,
     <<Some(BadUtf8), Some(GoodUtf8)>>}

\* A file that cannot be read, first or second.
Unreadable == {<<None, Some(<<>>)>>, <<Some(<<>>), None>>}

Pairs(n) == {<<Some(a), Some(b)>> : a \in Files(n), b \in Files(n)}

\* The program on every pair of small files and on the scenarios, with every key.
Init == InitWith(Pairs(MaxUILen) \cup Scenarios \cup Unreadable)

Next == Worker \/ Tick \/ Key \/ TerminalError

Spec == Init /\ [][Next]_vars

\* The load and the merge on every pair of files of at most MaxLen bytes: the
\* keys are those that select a hunk, resolve it and save.
MergeInit == InitWith(Pairs(MaxLen) \cup Scenarios \cup Unreadable)

MergeNext ==
    \/ Worker \/ Tick
    \/ KeyNext \/ KeyPickLeft \/ KeyPickRight \/ KeyPickBoth \/ KeyReset
    \/ KeySave \/ SavingEnter

SpecMerge == MergeInit /\ [][MergeNext]_vars

\* The load and the diff of every pair of files of at most MaxDiffLen bytes
\* and of the scenarios.
DiffInit ==
    InitWith(Pairs(MaxDiffLen) \cup Scenarios
             \cup {<<Some(SameBadLeft), Some(SameBadRight)>>} \cup Unreadable)

DiffNext == Worker \/ Tick

SpecDiff == DiffInit /\ [][DiffNext]_vars

\* The load alone, of every file of at most MaxLoadLen bytes against itself.
LoadInit == InitWith({<<Some(a), Some(a)>> : a \in Files(MaxLoadLen)} \cup Unreadable)

LoadNext == Worker \/ Tick

SpecLoad == LoadInit /\ [][LoadNext]_vars

\* The load under fair scheduling: the worker thread, once spawned, runs
\* each of its steps, and run_app's loop comes round again at most one poll
\* timeout after each pass as long as the terminal works.  Keys pressed
\* meanwhile fall into the outer match's _ => {}.
LiveInit == Init

LiveNext == Worker \/ Tick \/ KeyIgnored

\* WF_vars(Worker) written out, []<>~ENABLED <<Worker>>_vars \/ []<><<Worker>>_vars:
\* a worker step is enabled, and changes worker_pc, exactly until the
\* closure of process_side_by_side has sent its Done.
WorkerFair == []<>(worker_pc = "finished") \/ []<><<Worker>>_vars

SpecLive == LiveInit /\ [][LiveNext]_vars /\ WorkerFair /\ WF_vars(Tick)

\* ------------------------------------------------- the claims: merge writer

\* The call of save_merged_output of the last step got past File::create.
WriterRan == IsSome(saved) /\ Unwrap(saved).result # "Err"

AllUnresolved == \A i \in 1..Len(resolutions) : resolutions[i] = "Unresolved"

\* Every non-Equal hunk is resolved PickRight.
AllPickRight ==
    \A i \in 1..Len(diff_ops) :
        diff_ops[i].kind # "Equal" => resolutions[i] = "PickRight"

\* C1: with every resolution Unresolved, save_merged_output writes a byte
\* sequence equal to the left file's loaded content.
C1_RoundTripIdentity ==
    (WriterRan /\ AllUnresolved) =>
        /\ Unwrap(saved).result = "Ok"
        /\ Unwrap(saved).bytes = Unwrap(file1).content

\* C2: with every non-Equal hunk set to PickRight, save_merged_output writes
\* a byte sequence equal to the right file's loaded content.
C2_AcceptRightIdentity ==
    (WriterRan /\ AllPickRight) =>
        /\ Unwrap(saved).result = "Ok"
        /\ Unwrap(saved).bytes = Unwrap(file2).content

\* C3: save_merged_output never indexes a line-offset array out of bounds:
\* no call of it panics, whatever the files and the resolutions.
C3_WriterNeverPanics == IsSome(saved) => Unwrap(saved).result # "Panic"

\* The bytes of line i of a view, newline included: from its offset to the
\* next line's offset, or to the end of the content; nothing when the view
\* has no line i.
LineBytes(view, i) ==
    IF i >= len(view) THEN <<>>
    ELSE Slice(view.content, At(view.line_offsets, i),
               IF i + 1 < len(view) THEN At(view.line_offsets, i + 1)
               ELSE Len(view.content))

\* The byte range of the n lines from line start on.
RangeBytes(view, start, n) == Concat([k \in 1..n |-> LineBytes(view, start + k - 1)])

\* The table of the merge writer: the bytes one hunk contributes under a
\* resolution r.
TableBytes(f1, f2, op, r) ==
    LET left == RangeBytes(f1, op.old_index,
                           IF op.kind = "Equal" THEN op.len ELSE op.old_len)
        right == RangeBytes(f2, op.new_index, op.new_len)
    IN  CASE op.kind = "Equal" -> left
          [] op.kind = "Delete" -> IF r = "PickRight" THEN <<>> ELSE left
          [] op.kind = "Insert" -> IF r \in {"PickRight", "PickBoth"} THEN right ELSE <<>>
          [] op.kind = "Replace" ->
                CASE r \in {"Unresolved", "PickLeft"} -> left
                  [] r = "PickRight" -> right
                  [] r = "PickBoth" -> left \o right

\* The four hunks of scenario S1 are the first four hunks of the list.
S1Hunks ==
    /\ file1 = Some(from_source(S1Left))
    /\ file2 = Some(from_source(S1Right))
    /\ Len(diff_ops) >= 4
    /\ diff_ops[2].kind = "Replace"
    /\ diff_ops[4].kind = "Insert"

\* C4: the writer's output is the concatenation, in hunk order, of the byte
\* range the table gives for each hunk and its resolution; for scenario S1
\* that is "A\nB\nC\n", "A\nMOD\nC\n" and "A\nB\nMOD\nC\nD\n" for its three
\* resolution vectors.
C4_WriterFollowsTable ==
    WriterRan =>
        /\ Unwrap(saved).result = "Ok"
        /\ Unwrap(saved).bytes =
              Concat([i \in 1..Len(diff_ops) |->
                         TableBytes(Unwrap(file1), Unwrap(file2), diff_ops[i],
                                    resolutions[i])])
        /\ (S1Hunks /\ AllUnresolved) => Unwrap(saved).bytes = S1Left
        /\ (S1Hunks /\ resolutions[2] = "PickRight" /\ resolutions[4] = "Unresolved")
              => Unwrap(saved).bytes = <<65, 10, 77, 79, 68, 10, 67, 10>>
        /\ (S1Hunks /\ resolutions[2] = "PickBoth" /\ resolutions[4] = "PickRight")
              => Unwrap(saved).bytes = <<65, 10, 66, 10, 77, 79, 68, 10, 67, 10, 68, 10>>

RECURSIVE Sum(_)
Sum(ns) == IF ns = <<>> THEN 0 ELSE Head(ns) + Sum(Tail(ns))

\* The lines of the left file a hunk takes.
LeftLines(op) ==
    CASE op.kind = "Equal" -> op.len
      [] op.kind \in {"Delete", "Replace"} -> op.old_len
      [] op.kind = "Insert" -> 0

\* The lines of the right file a hunk takes.
RightLines(op) ==
    CASE op.kind = "Equal" -> op.len
      [] op.kind \in {"Insert", "Replace"} -> op.new_len
      [] op.kind = "Delete" -> 0

\* C5: the hunks partition both files: the left lines of all hunks add up to
\* the left file's line count, the right lines to the right file's.
C5_HunkPartition ==
    state.tag = "Done" =>
        /\ Sum([i \in 1..Len(diff_ops) |-> LeftLines(diff_ops[i])]) = len(Unwrap(file1))
        /\ Sum([i \in 1..Len(diff_ops) |-> RightLines(diff_ops[i])]) = len(Unwrap(file2))

\* --------------------------------------------------- the claims: navigation

\* Hunk i (0-based) is a change.
NonEqual(i) == At(diff_ops, i).kind # "Equal"

\* P[k]: the rows of the hunks before hunk k.
RowPrefix(k) == Sum([i \in 1..k |-> op_len(diff_ops[i])])

Least(S) == CHOOSE x \in S : \A y \in S : x <= y

\* The changes after the selection; every change when nothing is selected.
ChangesAfter(selected) ==
    {i \in 0..(Len(diff_ops) - 1) :
        NonEqual(i) /\ (IsSome(selected) => i > Unwrap(selected))}

\* C6: key 'n' in Done selects the smallest non-Equal hunk index greater than
\* the selection (the smallest of all when nothing is selected) and scrolls
\* to its first row P[s]; when there is none, selection and scroll row stay.
C6_NextSelectsLeastLaterChange ==
    [][KeyNext =>
          LET later == ChangesAfter(selected_op_index)
          IN  IF later = {}
              THEN UNCHANGED <<selected_op_index, scroll_offset>>
              ELSE /\ selected_op_index' = Some(Least(later))
                   /\ scroll_offset' = RowPrefix(Least(later))]_vars

\* 'n' has moved the selection to a change that is not the first one, and
\* the view to its first row.
C6_Witness ==
    /\ InDone
    /\ IsSome(selected_op_index)
    /\ \E j \in 0..(Len(diff_ops) - 1) : NonEqual(j) /\ j < Unwrap(selected_op_index)
    /\ scroll_offset = RowPrefix(Unwrap(selected_op_index))
    /\ scroll_offset > 0

\* C7: key 'p' in Done with nothing selected does not move: the selection
\* stays None and the scroll row is unchanged.
C7_PrevFromNoneStays ==
    [][(KeyPrev /\ selected_op_index = None) =>
          UNCHANGED <<selected_op_index, scroll_offset>>]_vars

\* No change lies strictly between hunk indices lo and hi.
NoChangeBetween(lo, hi) ==
    \A k \in 0..(Len(diff_ops) - 1) : (lo < k /\ k < hi) => ~NonEqual(k)

\* C8: every 'n' that changes the selection moves it to a larger non-Equal
\* hunk index without skipping a change (from no selection: to the first
\* change); every 'p' that changes it moves it to a non-Equal hunk, from a
\* selected hunk to a smaller index without skipping a change.
C8_NavigationMonotonic ==
    [][/\ (KeyNext /\ selected_op_index' # selected_op_index) =>
             /\ IsSome(selected_op_index')
             /\ NonEqual(Unwrap(selected_op_index'))
             /\ IF IsSome(selected_op_index)
                THEN /\ Unwrap(selected_op_index') > Unwrap(selected_op_index)
                     /\ NoChangeBetween(Unwrap(selected_op_index),
                                        Unwrap(selected_op_index'))
                ELSE NoChangeBetween(-1, Unwrap(selected_op_index'))
       /\ (KeyPrev /\ selected_op_index' # selected_op_index) =>
             /\ IsSome(selected_op_index')
             /\ NonEqual(Unwrap(selected_op_index'))
             /\ IsSome(selected_op_index) =>
                   /\ Unwrap(selected_op_index') < Unwrap(selected_op_index)
                   /\ NoChangeBetween(Unwrap(selected_op_index'),
                                      Unwrap(selected_op_index))]_vars

\* 'p' has gone back: a later change was visited (it is resolved) and an
\* earlier one is selected.
C8_Witness ==
    /\ InDone
    /\ IsSome(selected_op_index)
    /\ \E j \in 0..(Len(diff_ops) - 1) :
          /\ j > Unwrap(selected_op_index)
          /\ At(resolutions, j) # "Unresolved"

\* R with entry idx set to r and every other entry as it is.
OnlyEntry(idx, r) ==
    [i \in 1..Len(resolutions) |-> IF i = idx + 1 THEN r ELSE resolutions[i]]

\* C9: with a hunk s selected, '1'/Left sets R[s] to PickLeft, '2'/Right to
\* PickRight, '3' to PickBoth and Backspace to Unresolved; every other entry
\* of R, the selection, the scroll row and the app state are unchanged.
C9_ResolutionKeys ==
    [][IsSome(selected_op_index) =>
          LET Sets(r) ==
                  /\ resolutions' = OnlyEntry(Unwrap(selected_op_index), r)
                  /\ UNCHANGED <<selected_op_index, scroll_offset, state>>
          IN  /\ KeyPickLeft => Sets("PickLeft")
              /\ KeyPickRight => Sets("PickRight")
              /\ KeyPickBoth => Sets("PickBoth")
              /\ KeyReset => Sets("Unresolved")]_vars

\* The selected hunk is resolved PickBoth, another change PickRight and a
\* third hunk is unresolved.
C9_Witness ==
    /\ InDone
    /\ IsSome(selected_op_index)
    /\ At(resolutions, Unwrap(selected_op_index)) = "PickBoth"
    /\ \E j, k \in 1..Len(resolutions) :
          /\ resolutions[j] = "PickRight"
          /\ resolutions[k] = "Unresolved"

\* C10: after a successful load the scroll row r satisfies
\* 0 <= r < total_rows, whatever keys are pressed.
C10_ScrollBound ==
    state.tag \in {"Done", "Saving"} =>
        /\ 0 <= scroll_offset
        /\ scroll_offset < RowPrefix(Len(diff_ops))

\* The view stands on the last of more than ten rows.
C10_Witness ==
    /\ InDone
    /\ RowPrefix(Len(diff_ops)) > ScrollStep
    /\ scroll_offset = RowPrefix(Len(diff_ops)) - 1

\* ------------------------------------------- the claims: worker and loading

IsCompletion(event) == event.type = "Done"

\* The message of the last Log among events; the initial log when there is none.
RECURSIVE LastLog(_)
LastLog(events) ==
    IF events = <<>> THEN "Initializing..."
    ELSE IF events[Len(events)].type = "Log" THEN events[Len(events)].msg
    ELSE LastLog(SubSeq(events, 1, Len(events) - 1))

\* C11: the worker sends Log messages and then one completion message, its
\* last; the UI receives in send order, so when it has acted on the
\* completion every Log sent before it has been applied to the loading log.
C11_WorkerProtocol ==
    /\ \A i \in 1..Len(sent) : IsCompletion(sent[i]) => i = Len(sent)
    /\ worker_pc = "finished" <=> (sent # <<>> /\ IsCompletion(sent[Len(sent)]))
    /\ \E k \in 0..Len(sent) : channel = SubSeq(sent, k + 1, Len(sent))
    /\ state.tag # "Loading" =>
          /\ worker_pc = "finished"
          /\ channel = <<>>
          /\ loading_log = LastLog(sent)

\* A load has finished after three Log messages and the completion.
C11_Witness ==
    /\ state.tag = "Done"
    /\ Len(sent) = 4
    /\ loading_log = "Calculating Diff (imara-diff)..."

\* C12: Loading is left only by handling the completion message, to Done when
\* it carries Ok and to Error{msg} when it carries an error; Loading is never
\* entered again, and Error is never left for Done or Saving.
C12_LoadOutcome ==
    [][/\ (state.tag = "Loading" /\ state'.tag # "Loading") =>
             /\ channel # <<>>
             /\ channel' = <<>>
             /\ LET completion == channel[Len(channel)]
                IN  /\ IsCompletion(completion)
                    /\ state' = IF completion.ok THEN Done ELSE Error(completion.err)
       /\ state.tag # "Loading" => state'.tag # "Loading"
       /\ state.tag = "Error" => state'.tag = "Error"]_vars

\* The second file could not be read and the controller shows the error.
C12_Witness ==
    /\ state = Error("Failed to read file 2")
    /\ worker_pc = "finished"

\* ------------------------------------------------ the claims: saving, exit

\* C13: Enter in Saving{draft} calls the merge writer with the draft as the
\* path and the controller is back in Done whether the write succeeds or
\* fails; a failed write leaves resolutions, selection, scroll row and hunks
\* as they are, so the user can retry.
C13_EnterSavesAndReturns ==
    [][SavingEnter =>
          /\ IsSome(saved')
          /\ Unwrap(saved').path = state.input
          /\ state' = Done
          /\ running'
          /\ Unwrap(saved').result # "Ok" =>
                UNCHANGED <<resolutions, selected_op_index, scroll_offset, diff_ops>>]_vars

\* C14: Esc in Saving leads to Done without a call of the merge writer and
\* without ending the program; resolutions, selection and scroll row stay.
C14_EscCancels ==
    [][SavingEsc =>
          /\ state' = Done
          /\ saved' = None
          /\ running' /\ exit' = None
          /\ UNCHANGED <<resolutions, selected_op_index, scroll_offset>>]_vars

\* The prompt is open on an edited draft over a view with a selected and
\* resolved hunk: Esc is the step that follows.
C14_Witness ==
    /\ InSaving
    /\ state.input # DefaultName
    /\ IsSome(selected_op_index)
    /\ At(resolutions, Unwrap(selected_op_index)) # "Unresolved"
    /\ ENABLED SavingEsc

\* C15: the exit code is 0 after a clean quit and non-zero when the load
\* failed or the UI loop returned an error.
C15_ExitCode ==
    IsSome(exit) =>
        LET e == Unwrap(exit)
        IN  /\ (e.res = "Ok" /\ e.restored) => e.code = 0
            /\ (e.res = "Err" \/ state.tag = "Error") => e.code # 0

\* C16: in Error a quit key ends the UI loop: some key press leads from every
\* Error state to the end of run_app.
C16_ErrorQuit ==
    (running /\ state.tag = "Error") => ENABLED (Key /\ ~running')

\* C17: a key handled in Loading changes neither the state, the selection,
\* the scroll row nor the resolutions and does not end the program; the
\* spinner index changes only in a UI tick, by one.
C17_LoadingIgnoresKeys ==
    [][state.tag = "Loading" =>
          /\ Key => UNCHANGED <<state, selected_op_index, scroll_offset, resolutions,
                                running, exit, spinner_index>>
          /\ spinner_index' # spinner_index => Tick
          /\ Tick => spinner_index' = (spinner_index + 1) % SpinnerWrap]_vars

\* Still loading after two ticks, with a message of the worker waiting.
C17_Witness ==
    /\ running
    /\ state.tag = "Loading"
    /\ spinner_index = 2
    /\ channel # <<>>

\* ---------------------------------------------- the claims: scenario hunks

\* The change pairs of scenario S1: (1..2, 1..2) and (3..3, 3..4).
S1Changes ==
    <<[before |-> <<1, 2>>, after |-> <<1, 2>>],
      [before |-> <<3, 3>>, after |-> <<3, 4>>]>>

\* The two files of S1 are loaded and the sink was fed S1's change pairs.
S1Loaded ==
    /\ state.tag = "Done"
    /\ file1 = Some(from_source(S1Left))
    /\ file2 = Some(from_source(S1Right))
    /\ diff_ops = Feed(DiffSink_new(len(Unwrap(file1)), len(Unwrap(file2))), S1Changes)

\* C18: for scenario S1 the sink's hunks are exactly Equal(0,0,1),
\* Replace(1,1,1,1), Equal(2,2,1) and Insert(*,3,1), in this order.
C18_S1Hunks ==
    S1Loaded =>
        /\ Len(diff_ops) = 4
        /\ diff_ops[1] = [kind |-> "Equal", old_index |-> 0, new_index |-> 0, len |-> 1]
        /\ diff_ops[2] = [kind |-> "Replace", old_index |-> 1, old_len |-> 1,
                          new_index |-> 1, new_len |-> 1]
        /\ diff_ops[3] = [kind |-> "Equal", old_index |-> 2, new_index |-> 2, len |-> 1]
        /\ diff_ops[4].kind = "Insert"
        /\ diff_ops[4].new_index = 3
        /\ diff_ops[4].new_len = 1

\* C19: for scenario S3, an empty left file and "X\nY\n" on the right, the
\* hunk list is a single Insert.
C19_S3Hunks ==
    (/\ state.tag = "Done"
     /\ file1 = Some(from_source(<<>>))
     /\ file2 = Some(from_source(S3Right))) =>
        /\ Len(diff_ops) = 1
        /\ diff_ops[1].kind = "Insert"

\* ------------------------------------------------ the claims: line offsets

\* The views the controller holds.
LoadedViews == {Unwrap(f) : f \in {g \in {file1, file2} : IsSome(g)}}

\* The ways to split n bytes into chunks: the sets of cut positions.
Partitions(n) == SUBSET (1..(n - 1))

\* C20: whatever the partition of content B into chunks, the line offsets are
\* [0] followed by p + 1 for each newline position p in ascending order; they
\* are strictly increasing and every offset but the first is preceded in B
\* by a newline byte.
C20_LineOffsets ==
    \A view \in LoadedViews :
        LET B == view.content
            O == view.line_offsets
        IN  /\ \A cuts \in Partitions(Len(B)) : O = <<0>> \o par_collect(B, cuts, 0)
            /\ O[1] = 0
            /\ {O[k] : k \in 2..Len(O)} = {p + 1 : p \in {q \in 0..(Len(B) - 1) : B[q + 1] = NL}}
            /\ \A k \in 1..(Len(O) - 1) : O[k] < O[k + 1]
            /\ \A k \in 2..Len(O) : B[O[k]] = NL

\* A loaded file with two newlines that are not its last byte.
C20_Witness ==
    /\ state.tag = "Done"
    /\ Unwrap(file1).content = <<NL, 97, NL, 98>>
    /\ Unwrap(file1).line_offsets = <<0, 1, 3>>

\* C21: the last element of the line-offset array is |B|, the sentinel,
\* whether or not B ends with a newline.
C21_OffsetSentinel ==
    \A view \in LoadedViews :
        view.line_offsets[Len(view.line_offsets)] = Len(view.content)

\* get_line(i) followed by a newline for every line but the last, then the
\* last line as it is.
Reconstructed(view) ==
    Concat([i \in 1..len(view) |->
               Unwrap(get_line(view, i - 1)) \o
                   (IF i < len(view) THEN <<NL>> ELSE <<>>)])

\* C22: for every loaded content B of decodable text the lines get_line
\* returns, joined by newlines, are exactly B.
C22_LineRoundTrip ==
    \A view \in LoadedViews :
        /\ \A i \in 0..(len(view) - 1) : IsSome(get_line(view, i))
        /\ Reconstructed(view) = view.content

\* A loaded file with an empty line in the middle and no final newline.
C22_Witness ==
    /\ state.tag = "Done"
    /\ Unwrap(file1).content = <<97, NL, NL, 98>>
    /\ get_line(Unwrap(file1), 1) = Some(<<>>)
    /\ get_line(Unwrap(file1), 2) = Some(<<98>>)

\* ---------------------------------------------------- the claims: renderer

\* C23: the renderer's row lookup maps P[k], the first row of hunk k, to
\* hunk k with local row 0, and the last row of hunk k to hunk k, for every
\* hunk of the list.
C23_ScrollConsistency ==
    state.tag = "Done" =>
        \A k \in 0..(Len(diff_ops) - 1) :
            LET first == At(op_row_counts, k)
                last == first + op_len(At(diff_ops, k)) - 1
            IN  /\ row_to_hunk(diff_ops, op_row_counts, first) = {Some(<<k, 0>>)}
                /\ \A found \in row_to_hunk(diff_ops, op_row_counts, last) :
                      IsSome(found) /\ Unwrap(found)[1] = k

\* C24: PageDown and PageUp move the scroll row by the viewport height V, the
\* number of diff rows drawn per frame, clamped to [0, total_rows): PageDown
\* from row r with r + V < total_rows leads to r + V.
C24_PageByViewport ==
    state.tag = "Done" =>
        \A height \in Heights :
            LET V == view_height(height)
                total == total_rows(diff_ops, op_row_counts)
            IN  /\ scroll_offset + V < total =>
                      page_down(scroll_offset, height, total) = scroll_offset + V
                /\ page_up(scroll_offset, height) = Max(scroll_offset - V, 0)

\* ------------------------------------------------------ the claims: UTF-8

\* C25: bytes that are not UTF-8 are not fatal: when both files exist the
\* load ends in Done, never in Error, whatever their bytes and sizes.
C25_NonUtf8Loads ==
    (IsSome(disk1) /\ IsSome(disk2)) => state.tag # "Error"

\* ---------------------------------------------------- the claims: diff sink

\* The edit scripts the engine can hand to the sink for the loaded files.
LoadedScripts ==
    IF state.tag = "Done"
    THEN EditScripts(byte_lines(Unwrap(file1).content), byte_lines(Unwrap(file2).content))
    ELSE {}

\* The sink of the loaded files after the first n change pairs of a script.
RECURSIVE SinkAfter(_, _)
SinkAfter(changes, n) ==
    IF n = 0 THEN DiffSink_new(len(Unwrap(file1)), len(Unwrap(file2)))
    ELSE process_change(SinkAfter(changes, n - 1), changes[n].before, changes[n].after)

\* C27: for a change pair (bo..be, ao..ae) the sink first emits
\* Equal{last_old, last_new, bo - last_old} exactly when bo > last_old, then
\* exactly one hunk, Insert for an empty before range, Delete for an empty
\* after range, Replace with both lengths >= 1 otherwise, anchored at bo and
\* ao; then last_old = be and last_new = ae.
C27_ProcessChange ==
    \A changes \in LoadedScripts :
        \A n \in 1..Len(changes) :
            LET self == SinkAfter(changes, n - 1)
                next == SinkAfter(changes, n)
                bo == changes[n].before[1]
                be == changes[n].before[2]
                ao == changes[n].after[1]
                ae == changes[n].after[2]
                emitted == SubSeq(next.ops, Len(self.ops) + 1, Len(next.ops))
                gap == bo > self.last_old_idx
                hunk == emitted[Len(emitted)]
            IN  /\ SubSeq(next.ops, 1, Len(self.ops)) = self.ops
                /\ Len(emitted) = IF gap THEN 2 ELSE 1
                /\ gap => emitted[1] = [kind |-> "Equal", old_index |-> self.last_old_idx,
                                        new_index |-> self.last_new_idx,
                                        len |-> bo - self.last_old_idx]
                /\ hunk.kind = IF be = bo THEN "Insert"
                               ELSE IF ae = ao THEN "Delete" ELSE "Replace"
                /\ hunk.kind = "Insert" => hunk.new_len = ae - ao
                /\ hunk.kind = "Delete" => hunk.old_len = be - bo
                /\ hunk.kind = "Replace" =>
                      /\ hunk.old_len = be - bo /\ hunk.old_len >= 1
                      /\ hunk.new_len = ae - ao /\ hunk.new_len >= 1
                /\ hunk.old_index = bo
                /\ hunk.new_index = ao
                /\ next.last_old_idx = be
                /\ next.last_new_idx = ae

\* The loaded hunks hold a gap Equal before a Replace and, later, an Insert.
C27_Witness ==
    /\ state.tag = "Done"
    /\ \E i, j \in 1..Len(diff_ops) :
          /\ i + 1 < j
          /\ diff_ops[i].kind = "Equal"
          /\ diff_ops[i + 1].kind = "Replace"
          /\ diff_ops[j].kind = "Insert"

\* C28: finish appends a final Equal exactly when last_old < L_left, and it
\* covers L_left - last_old >= 1 lines; when last_old = L_left it appends
\* nothing, whatever the right file's line count.
C28_Finish ==
    \A changes \in LoadedScripts :
        LET self == SinkAfter(changes, Len(changes))
            ops == finish(self)
            appended == SubSeq(ops, Len(self.ops) + 1, Len(ops))
        IN  IF self.last_old_idx < self.total_old_len
            THEN appended = <<[kind |-> "Equal", old_index |-> self.last_old_idx,
                               new_index |-> self.last_new_idx,
                               len |-> self.total_old_len - self.last_old_idx]>>
            ELSE appended = <<>>

\* C29: every line of an Equal hunk exists in both files and has the same
\* content on both sides.
C29_EqualHunksMatch ==
    state.tag = "Done" =>
        \A i \in 1..Len(diff_ops) :
            diff_ops[i].kind = "Equal" =>
                \A k \in 0..(diff_ops[i].len - 1) :
                    LET l == get_line(Unwrap(file1), diff_ops[i].old_index + k)
                        r == get_line(Unwrap(file2), diff_ops[i].new_index + k)
                    IN  IsSome(l) /\ IsSome(r) /\ l = r

\* C30: no two consecutive hunks of a hunk list are both Equal.
C30_NoAdjacentEquals ==
    \A ops \in {diff_ops} \cup {Feed(SinkAfter(changes, 0), changes) : changes \in LoadedScripts} :
        \A i \in 1..(Len(ops) - 1) :
            ~(ops[i].kind = "Equal" /\ ops[i + 1].kind = "Equal")

\* A loaded hunk list with three Equal hunks, each one apart from the next.
C30_Witness ==
    /\ state.tag = "Done"
    /\ Len(diff_ops) >= 5
    /\ \A i \in {1, 3, 5} : diff_ops[i].kind = "Equal"

\* C31: every hunk the diff sink produces has display length >= 1, so the
\* row prefix is strictly increasing and the hunk list of a successful load
\* is never empty.
C31_DisplayLength ==
    state.tag = "Done" =>
        /\ Len(diff_ops) >= 1
        /\ \A i \in 1..Len(diff_ops) : op_len(diff_ops[i]) >= 1
        /\ \A i \in 1..(Len(op_row_counts) - 1) : op_row_counts[i] < op_row_counts[i + 1]

\* ---------------------------------------------------- the claims: drawing

\* Terminal heights of the frames drawn.
DrawHeights == 1..MaxDrawHeight

\* The frames draw_diff_view can draw of the loaded diff, view at start_row.
Frames(start_row, height) ==
    draw_diff_view(diff_ops, op_row_counts, resolutions, Unwrap(file1), Unwrap(file2),
                   start_row, height)

\* The hunk that contains global row g.
HunkOfRow(g) ==
    CHOOSE h \in 0..(Len(diff_ops) - 1) :
        RowPrefix(h) <= g /\ g < RowPrefix(h) + op_len(At(diff_ops, h))

\* C32: for viewport height V and scroll row r < total_rows the renderer
\* draws exactly min(V, total_rows - r) rows, and the y-th drawn row shows
\* the hunk and the local row that contain global row r + y, in increasing
\* order with no row skipped or repeated.
C32_VirtualWindow ==
    state.tag = "Done" =>
        LET total == total_rows(diff_ops, op_row_counts)
        IN  \A height \in DrawHeights :
                \A r \in 0..(total - 1) :
                    \A rows \in Frames(r, height) :
                        /\ Len(rows) = Min(view_height(height), total - r)
                        /\ \A y \in 0..(Len(rows) - 1) :
                              /\ At(rows, y).y = y
                              /\ At(rows, y).hunk = HunkOfRow(r + y)
                              /\ At(rows, y).local_idx = r + y - RowPrefix(HunkOfRow(r + y))

\* A frame of three rows that starts inside one hunk and ends in the third
\* hunk after it is drawn from the loaded diff.
C32_Witness ==
    /\ state.tag = "Done"
    /\ \E r \in 1..total_rows(diff_ops, op_row_counts) :
          \E rows \in Frames(r, MaxDrawHeight) :
              /\ Len(rows) = 3
              /\ rows[1].local_idx > 0
              /\ rows[3].hunk = rows[1].hunk + 2

\* The bytes of line i of a view without the newline that ends it.
LineContent(view, i) ==
    LET bytes == LineBytes(view, i)
    IN  IF bytes # <<>> /\ bytes[Len(bytes)] = NL
        THEN SubSeq(bytes, 1, Len(bytes) - 1) ELSE bytes

\* The styles of a cell that holds a line.
Neutral == Style(Some(FG_DEFAULT), BG_CANVAS)

Removed == Style(Some(FG_DEFAULT), BG_DEL)

Added == Style(Some(FG_DEFAULT), BG_ADD)

\* C33: at local row l of a Replace hunk the left cell shows line
\* old_index + l exactly when l < old_len (else it is empty) and the right
\* cell shows line new_index + l exactly when l < new_len; when both cells
\* have a line and the two lines are byte-equal both cells are styled
\* neutral, otherwise a present left cell is styled removed and a present
\* right cell added.
C33_ReplaceRows ==
    state.tag = "Done" =>
        \A i \in 0..(Len(diff_ops) - 1) :
            At(diff_ops, i).kind = "Replace" =>
                \A l \in 0..(op_len(At(diff_ops, i)) - 1) :
                    LET op == At(diff_ops, i)
                        cells == op_cells(op, l, Unwrap(file1), Unwrap(file2))
                        both == l < op.old_len /\ l < op.new_len
                        byte_equal ==
                            both /\ LineContent(Unwrap(file1), op.old_index + l)
                                    = LineContent(Unwrap(file2), op.new_index + l)
                    IN  /\ IF l < op.old_len
                           THEN /\ cells[1].line_index = Some(op.old_index + l)
                                /\ cells[1].style = IF byte_equal THEN Neutral ELSE Removed
                           ELSE cells[1] = empty_cell
                        /\ IF l < op.new_len
                           THEN /\ cells[2].line_index = Some(op.new_index + l)
                                /\ cells[2].style = IF byte_equal THEN Neutral ELSE Added
                           ELSE cells[2] = empty_cell

\* ------------------------------------- the claims: selection, resolutions

\* The selection is None or the index of a non-Equal hunk of the list.
SelectionValid(selected) ==
    IsSome(selected) =>
        /\ Unwrap(selected) \in 0..(Len(diff_ops) - 1)
        /\ NonEqual(Unwrap(selected))

\* C34: in every reachable state the selection is None or the index (< H)
\* of a non-Equal hunk; only 'n' and 'p' change it, and once it is set no
\* key sequence brings it back to None.
C34_SelectionInvariant ==
    [][/\ SelectionValid(selected_op_index)
       /\ SelectionValid(selected_op_index)'
       /\ selected_op_index' # selected_op_index => (KeyNext \/ KeyPrev)
       /\ IsSome(selected_op_index) => IsSome(selected_op_index')]_vars

\* A change after an Equal hunk is selected, and the view has since been
\* scrolled away from its first row.
C34_Witness ==
    /\ InDone
    /\ IsSome(selected_op_index)
    /\ \E j \in 0..(Len(diff_ops) - 1) : ~NonEqual(j) /\ j < Unwrap(selected_op_index)
    /\ scroll_offset # At(op_row_counts, Unwrap(selected_op_index))

\* C35: after a successful load |R| = H with every entry Unresolved, |R| = H
\* in every later state, and the entry of every Equal hunk stays Unresolved
\* under any key sequence.
C35_ResolutionVector ==
    [][/\ (state.tag = "Loading" /\ state'.tag = "Done") =>
             /\ Len(resolutions') = Len(diff_ops')
             /\ \A i \in 1..Len(resolutions') : resolutions'[i] = "Unresolved"
       /\ state'.tag \in {"Done", "Saving"} =>
             /\ Len(resolutions') = Len(diff_ops')
             /\ \A i \in 1..Len(diff_ops') :
                   diff_ops'[i].kind = "Equal" => resolutions'[i] = "Unresolved"]_vars

\* A change between two Equal hunks has been resolved; the Equal hunks are
\* unresolved.
C35_Witness ==
    /\ state.tag \in {"Done", "Saving"}
    /\ Len(resolutions) = Len(diff_ops)
    /\ \E i \in 2..(Len(diff_ops) - 1) :
          /\ resolutions[i] # "Unresolved"
          /\ diff_ops[i - 1].kind = "Equal" /\ resolutions[i - 1] = "Unresolved"
          /\ diff_ops[i + 1].kind = "Equal" /\ resolutions[i + 1] = "Unresolved"

\* ------------------------------------------------ the claims: Saving modal

\* A key press handled in Saving.
SavingKey == SavingEnter \/ SavingEsc \/ SavingBackspace \/ SavingChar \/ SavingOther

\* C36: while the state is Saving no key changes the resolution vector, the
\* selection or the scroll row and no key quits the program; a character key
\* only appends that character to the draft and Backspace only removes the
\* draft's last character; every entry into Saving, by key 's' in Done and
\* no other way, starts with the draft "merged_output.json".
C36_SavingModal ==
    [][/\ SavingKey =>
             /\ UNCHANGED <<resolutions, selected_op_index, scroll_offset>>
             /\ running'
       /\ SavingChar =>
             /\ \E c \in TypedChars : state' = Saving(Append(state.input, c))
             /\ UNCHANGED <<key_frame, running, exit>>
       /\ SavingBackspace =>
             /\ state' = Saving(pop(state.input))
             /\ UNCHANGED <<key_frame, running, exit>>
       /\ (state.tag # "Saving" /\ state'.tag = "Saving") =>
             /\ KeySave
             /\ state.tag = "Done"
             /\ state' = Saving(DefaultName)]_vars

\* ----------------------------------------------------- the claims: liveness

\* C37: under fair scheduling of the worker thread and of UI ticks the
\* controller eventually leaves Loading, reaching Done or Error, for every
\* pair of input paths; and the UI tick never waits on the worker: in
\* Loading a tick can always be taken, and a tick that finds the channel
\* empty completes and leaves the state Loading.
C37_LoadTerminates ==
    /\ <>(state.tag \in {"Done", "Error"})
    /\ []((running /\ state.tag = "Loading") => ENABLED Tick)
    /\ [][(Tick /\ channel = <<>>) =>
             /\ state'.tag = "Loading"
             /\ UNCHANGED <<loading_log, worker_vars>>]_vars

\* The load has ended in Done after ticks that found nothing to receive
\* had come and gone: the worker's last message was taken by a third tick
\* or a later one.
C37_Witness ==
    /\ state.tag = "Done"
    /\ worker_pc = "finished"
    /\ channel = <<>>
    /\ spinner_index = 0

====
